---- MODULE Spec2Model ----
(***************************************************************************)
(* Model of news_server/main.py: the NewsServer object (connection         *)
(* registry `websockets`, bounded `news_history`), one websocket_handler   *)
(* task per subscriber connection and one post_news task per producer      *)
(* request.  asyncio is cooperative: a handler runs atomically from one    *)
(* await that can suspend to the next, so every action below is one such   *)
(* slice of a coroutine.  Spec is the whole server; SpecBroadcast is the   *)
(* server with clients that send no text messages; SpecHistory is the      *)
(* server with healthy, silent clients and submissions past the capacity   *)
(* of the history; SpecSession is the server with healthy clients, one of  *)
(* which sends several text messages; SpecSequential is SpecBroadcast with *)
(* producers that submit one after the other; SpecLive is SpecBroadcast    *)
(* with the event loop's fairness towards handlers whose transport closed. *)
(***************************************************************************)
EXTENDS Integers, Sequences, FiniteSets, TLC

\* ---------------------------------------------------------------- bounds
NumSessions == 2        \* subscriber connections (one handle each)
NumProducers == 2       \* concurrently running post_news requests
MaxPosts == 2           \* accepted submissions in one behaviour of Spec
MaxHistoryPosts == 5    \* accepted submissions in one behaviour of SpecHistory
MaxSessionPosts == 3    \* accepted submissions in one behaviour of SpecSession
MaxInbound == 1         \* inbound text messages of the session that sends them
MaxSessionInbound == 2  \* the same, in one behaviour of SpecSession
max_history == 3        \* self.max_history (100 in the source), scaled down
InitialHistoryCount == 2    \* the 10 of self.news_history[-10:], scaled down
DefaultCount == 2           \* the 10 of data.get('count', 10), scaled down

Sessions == 1..NumSessions
Producers == 1..NumProducers

VARIABLES
    websockets,     \* self.websockets: set of registered handles
    news_history,   \* self.news_history: sequence of news items
    pc,             \* per session: position of websocket_handler
    conn,           \* per session: the handle's condition: "open"; "closed" (ws.closed
                    \* is True); "reset" (ws.closed still False, sends raise
                    \* ConnectionResetError); "fault" (ws.closed still False, sends
                    \* raise another exception)
    outbox,         \* per session: messages written to the client, in order
    nin,            \* per session: inbound text messages dispatched so far
    ppc,            \* per producer: position of post_news
    news_item,      \* per producer: the news_item local of post_news
    pending,        \* per producer: send_to_client tasks gather still has to run
    snapshot,       \* per producer: handles seen open / closed by the for loop
    results,        \* per producer: result of each send_to_client task
    attempts,       \* per producer: number of ws.send_json calls per handle
    response,       \* per producer: the web.json_response returned
    accepted        \* every news item appended so far, in order of acceptance

vars == <<websockets, news_history, pc, conn, outbox, nin,
          ppc, news_item, pending, snapshot, results, attempts,
          response, accepted>>

sessionVars == <<pc, conn, outbox, nin>>
producerVars == <<ppc, news_item, pending, snapshot, results, attempts, response>>

\* ---------------------------------------------------------------- helpers
Min(a, b) == IF a < b THEN a ELSE b
Max(a, b) == IF a > b THEN a ELSE b

\* Python's seq[i:] for any integer i (negative i counts from the end).
PySliceFrom(seq, i) ==
    LET n == Len(seq)
        start == IF i < 0 THEN Max(n + i, 0) ELSE Min(i, n)
    IN SubSeq(seq, start + 1, n)

NoItem == [id |-> 0, title |-> 0]
NoReply == [type |-> "none", data |-> <<>>, message |-> ""]
NoResponse == [status |-> "none", news_id |-> 0, clients_notified |-> 0]

Msg(type, data, message) == [type |-> type, data |-> data, message |-> message]

\* ------------------------------------------------------------ history
\* Faulty variant: the id is the length of the history before the append.
NextIdFromZero(history) == Len(history)

\* news_item['id'] = len(self.news_history) + 1
NextId(history) == Len(history) + 1

\* Faulty variant: the trim keeps the oldest max_history entries instead of the newest.
AppendNewsKeepOldest(history, item) ==
    LET h == Append(history, item)
    IN IF Len(h) > max_history THEN SubSeq(h, 1, max_history) ELSE h

\* self.news_history.append(news_item); trim to the last max_history entries
AppendNews(history, item) ==
    LET h == Append(history, item)
    IN IF Len(h) > max_history THEN PySliceFrom(h, -max_history) ELSE h

\* ------------------------------------------------------------ sending
\* What `await ws.send_json(...)` does on a handle in the given condition: aiohttp
\* raises ConnectionResetError on a closed handle or a lost connection; any other
\* exception of the send is the outcome "fault".
SendOutcome(c) ==
    IF c \in {"closed", "reset"} THEN "reset"     \* ConnectionResetError
    ELSE IF c = "fault" THEN "fault"              \* any other exception
    ELSE "ok"

\* ws.closed
Closed(c) == c = "closed"

Deliver(box, s, m) == [box EXCEPT ![s] = Append(@, m)]

\* Faulty variant: the handler returns without discarding its handle.
FinallyKeepsHandle(reg, s) == reg

\* finally: self.websockets.discard(ws)
Finally(reg, s) == reg \ {s}

\* ------------------------------------------------- subscriber sessions
\* Inbound text frames a client can send.
Counts == {-1, 0, 1, 2, 3, 4}
InboundTexts ==
    {[kind |-> "nonjson", type |-> "none", ctype |-> "absent", count |-> 0],
     [kind |-> "nonobject", type |-> "none", ctype |-> "absent", count |-> 0],
     [kind |-> "object", type |-> "ping", ctype |-> "absent", count |-> 0],
     [kind |-> "object", type |-> "other", ctype |-> "absent", count |-> 0],
     [kind |-> "object", type |-> "get_history", ctype |-> "absent", count |-> 0],
     [kind |-> "object", type |-> "get_history", ctype |-> "nonint", count |-> 0]}
    \cup {[kind |-> "object", type |-> "get_history", ctype |-> "int", count |-> c] :
            c \in Counts}

Handled(reply) == [raised |-> "none", reply |-> reply]
Raised(exc) == [raised |-> exc, reply |-> NoReply]

\* count = min(data.get('count', 10), self.max_history)
RequestedCount(m) ==
    Min(IF m.ctype = "absent" THEN DefaultCount ELSE m.count, max_history)

\* Faulty variant: the slice starts at count instead of counting from the end.
HistoryDataFromStart(history, count) == PySliceFrom(history, count)

\* self.news_history[-count:]
HistoryData(history, count) == PySliceFrom(history, -count)

\* handle_client_message(ws, data) for a decoded JSON value
HandleClientMessage(m, history) ==
    IF m.kind = "nonobject" THEN Raised("AttributeError")      \* data.get on a non-dict
    ELSE IF m.type = "ping" THEN Handled(Msg("pong", <<>>, ""))
    ELSE IF m.type = "get_history" THEN
        IF m.ctype = "nonint" THEN Raised("TypeError")          \* min(str, int)
        ELSE Handled(Msg("history", HistoryData(history, RequestedCount(m)), ""))
    ELSE Handled(Msg("error", <<>>, "Unknown message type"))

\* Faulty variant: the JSONDecodeError of json.loads is not caught.
OnTextUncaught(m, history) ==
    IF m.kind = "nonjson" THEN Raised("JSONDecodeError")
    ELSE HandleClientMessage(m, history)

\* the TEXT branch of the receive loop: json.loads, dispatch, except JSONDecodeError
OnText(m, history) ==
    IF m.kind = "nonjson" THEN Handled(Msg("error", <<>>, "Invalid JSON format"))
    ELSE HandleClientMessage(m, history)

\* Leaving the try block: the finally clause runs and the handler returns; the
\* returned WebSocketResponse is closed from then on.
Teardown(s) ==
    /\ pc' = [pc EXCEPT ![s] = "closed"]
    /\ websockets' = Finally(websockets, s)
    /\ conn' = [conn EXCEPT ![s] = "closed"]

\* Faulty variant: the initial history is the oldest stored items, not the newest.
InitialHistoryOldest(history) ==
    SubSeq(history, 1, Min(InitialHistoryCount, Len(history)))

\* self.news_history[-10:]
InitialHistory(history) == PySliceFrom(history, -InitialHistoryCount)

\* Faulty variant: the handler suspends between the registration and its first send.
FirstSendDeferred(box, s, history) == box

\* The first send of the handshake, written in the slice that registered the
\* handle: the initial history, or the acknowledgment when nothing is stored.
FirstHandshakeSend(box, s, history) ==
    Deliver(box, s, IF history # <<>>
                    THEN Msg("history", InitialHistory(history), "")
                    ELSE Msg("connected", <<>>, ""))

\* self.websockets.add(ws), then the first send of the handshake.
Connect(s) ==
    /\ pc[s] = "idle"
    /\ \A x \in Sessions : x < s => pc[x] # "idle"    \* handles are numbered as they connect
    /\ websockets' = websockets \cup {s}
    /\ outbox' = FirstHandshakeSend(outbox, s, news_history)
    /\ pc' = [pc EXCEPT ![s] = IF news_history # <<>> THEN "handshake" ELSE "active"]
    /\ UNCHANGED <<news_history, conn, nin, producerVars, accepted>>

\* await ws.send_json({'type': 'connected', ...}) after the history send suspended.
SendConnected(s) ==
    /\ pc[s] = "handshake"
    /\ IF SendOutcome(conn[s]) = "ok"
       THEN /\ outbox' = Deliver(outbox, s, Msg("connected", <<>>, ""))
            /\ pc' = [pc EXCEPT ![s] = "active"]
            /\ UNCHANGED <<websockets, conn>>
       ELSE /\ Teardown(s)
            /\ UNCHANGED outbox
    /\ UNCHANGED <<news_history, nin, producerVars, accepted>>

\* async for msg in ws: one TEXT message is decoded, dispatched and answered.
ReceiveText(s, m) ==
    /\ pc[s] = "active"
    /\ ~Closed(conn[s])
    /\ \A x \in Sessions : x # s => nin[x] = 0       \* one session sends text messages
    /\ LET d == OnText(m, news_history)
           sent == d.raised = "none" /\ SendOutcome(conn[s]) = "ok"
       IN /\ nin' = [nin EXCEPT ![s] = @ + 1]
          /\ IF sent
             THEN /\ outbox' = Deliver(outbox, s, d.reply)
                  /\ UNCHANGED <<pc, websockets, conn>>
             ELSE /\ Teardown(s)
                  /\ UNCHANGED outbox
    /\ UNCHANGED <<news_history, producerVars, accepted>>

\* The receive loop ends: the peer's close arrived or the handle is already closed.
LoopEnds(s) ==
    /\ pc[s] = "active"
    /\ Teardown(s)
    /\ UNCHANGED <<news_history, outbox, nin, producerVars, accepted>>

\* msg.type == WSMsgType.ERROR: break
ErrorFrame(s) ==
    /\ pc[s] = "active"
    /\ ~Closed(conn[s])
    /\ Teardown(s)
    /\ UNCHANGED <<news_history, outbox, nin, producerVars, accepted>>

\* except asyncio.CancelledError: the task is cancelled at one of its awaits.
Cancel(s) ==
    /\ pc[s] \in {"handshake", "active"}
    /\ Teardown(s)
    /\ UNCHANGED <<news_history, outbox, nin, producerVars, accepted>>

\* Environment, while the handler task is suspended: the heartbeat or the peer
\* closes the handle ("closed": ws.closed is True before the handler reacts), or
\* the transport breaks with ws.closed still False ("reset", "fault").
ConnFail(s, how) ==
    /\ pc[s] \in {"handshake", "active"}
    /\ conn[s] = "open"
    /\ conn' = [conn EXCEPT ![s] = how]
    /\ UNCHANGED <<websockets, news_history, pc, outbox, nin,
                   producerVars, accepted>>

\* ------------------------------------------------- producer submissions
\* Request bodies of POST /news: text that is not JSON, or an object whose 'title'
\* and 'content' are each absent, the empty string or a non-empty string.
Body(json, title, content) == [json |-> json, title |-> title, content |-> content]
Bodies ==
    {Body(FALSE, "absent", "absent"),
     Body(TRUE, "absent", "text"), Body(TRUE, "", "text"),
     Body(TRUE, "text", "absent"), Body(TRUE, "text", ""),
     Body(TRUE, "text", "text")}

\* data.get('title') / data.get('content') is falsy
Falsy(field) == field \in {"absent", ""}

\* Faulty variant: only the title is validated.
RejectedOnTitleOnly(body) == ~body.json \/ Falsy(body.title)

\* except json.JSONDecodeError, and `if not title or not content`
Rejected(body) == ~body.json \/ Falsy(body.title) \/ Falsy(body.content)

\* for ws in self.websockets: if ws.closed: disconnected.append(ws)
Disconnected(reg, c) == {h \in reg : Closed(c[h])}

\* Faulty variant: the loop does not test ws.closed and sends to every registered handle.
BroadcastTargetsAll(reg, c) == reg

\* for ws in self.websockets: ... tasks.append(self.send_to_client(ws, message))
BroadcastTargets(reg, c) == {h \in reg : ~Closed(c[h])}

\* Faulty variant: a failed send empties the registry instead of discarding one handle.
AfterSendClearsRegistry(reg, h, outcome) ==
    IF outcome = "reset" THEN {} ELSE reg

\* send_to_client: except ConnectionResetError: self.websockets.discard(ws); raise
AfterSendToClient(reg, h, outcome) ==
    IF outcome = "reset" THEN reg \ {h} ELSE reg

\* Faulty variant: the first failing send abandons the sends that have not run yet.
GatherStopsAtFailure(tasks, h, outcome) ==
    IF outcome = "ok" THEN tasks \ {h} ELSE {}

\* Faulty variant: the sends follow the live registry instead of the task list
\* built when the broadcast iterated it.
GatherOverLiveRegistry(tasks, h, outcome) == (tasks \cup websockets) \ {h}

\* asyncio.gather(*tasks, return_exceptions=True): the tasks still to run once
\* the task for h has ended with the given outcome.
GatherRemaining(tasks, h, outcome) == tasks \ {h}

\* Faulty variant: broadcast_news returns without waiting for the sends it started.
GatherNotAwaited(tasks) == TRUE

\* await asyncio.gather(*tasks, ...) returns once every task has ended.
GatherDone(tasks) == tasks = {}

\* Faulty variant: gather without return_exceptions raises the exception of a failed send.
GatherRaisesFailure(outcome) == outcome \in {"reset", "fault"}

\* Does gather raise a task's exception into broadcast_news (and so post_news)?
GatherRaises(outcome) == FALSE

\* 'clients_notified': len(self.websockets)
ClientsNotified(reg) == Cardinality(reg)

\* return web.json_response({'status': 'success', ...})
SuccessResponse(item, reg) ==
    [status |-> "success", news_id |-> item.id, clients_notified |-> ClientsNotified(reg)]

ErrorResponse(code) == [status |-> code, news_id |-> 0, clients_notified |-> 0]

ResetBroadcast(p) ==
    /\ pending' = [pending EXCEPT ![p] = {}]
    /\ snapshot' = [snapshot EXCEPT ![p] = [open |-> {}, closed |-> {}]]
    /\ results' = [results EXCEPT ![p] = [s \in Sessions |-> "none"]]
    /\ attempts' = [attempts EXCEPT ![p] = [s \in Sessions |-> 0]]

\* A request is served by the lowest-numbered handler slot that is not suspended.
FreeSlot(p) ==
    /\ ppc[p] \in {"idle", "done"}
    /\ \A q \in Producers : q < p => ppc[q] = "gather"

\* post_news on a body that fails validation: a 400 response, nothing else.
PostRejected(p, body) ==
    /\ FreeSlot(p)
    /\ Rejected(body)
    /\ ppc' = [ppc EXCEPT ![p] = "done"]
    /\ news_item' = [news_item EXCEPT ![p] = NoItem]
    /\ response' = [response EXCEPT ![p] = ErrorResponse("400")]
    /\ ResetBroadcast(p)
    /\ UNCHANGED <<websockets, news_history, sessionVars, accepted>>

\* post_news on a valid body, from the validation to the await of gather (or to
\* the response when broadcast_news returns without awaiting).
PostNews(p, body) ==
    /\ FreeSlot(p)
    /\ ~Rejected(body)
    /\ LET item == [id |-> NextId(news_history), title |-> Len(accepted) + 1]
           open == BroadcastTargets(websockets, conn)
           gone == Disconnected(websockets, conn)
           reg == websockets \ gone
       IN /\ news_item' = [news_item EXCEPT ![p] = item]
          /\ news_history' = AppendNews(news_history, item)
          /\ accepted' = Append(accepted, item)
          /\ websockets' = reg
          /\ snapshot' = [snapshot EXCEPT ![p] = [open |-> open, closed |-> gone]]
          /\ results' = [results EXCEPT ![p] = [s \in Sessions |-> "none"]]
          /\ attempts' = [attempts EXCEPT ![p] = [s \in Sessions |-> 0]]
          /\ pending' = [pending EXCEPT ![p] = open]
          /\ IF open = {}
             THEN /\ ppc' = [ppc EXCEPT ![p] = "done"]
                  /\ response' = [response EXCEPT ![p] = SuccessResponse(item, reg)]
             ELSE /\ ppc' = [ppc EXCEPT ![p] = "gather"]
                  /\ response' = [response EXCEPT ![p] = NoResponse]
    /\ UNCHANGED sessionVars

\* One send_to_client task of the gather runs: ws.send_json(message).
SendToClient(p, h) ==
    /\ ppc[p] = "gather"
    /\ h \in pending[p]
    /\ LET o == SendOutcome(conn[h])
       IN /\ attempts' = [attempts EXCEPT ![p][h] = @ + 1]
          /\ results' = [results EXCEPT ![p][h] = o]
          /\ outbox' = IF o = "ok"
                       THEN Deliver(outbox, h, Msg("news", <<news_item[p]>>, ""))
                       ELSE outbox
          /\ websockets' = AfterSendToClient(websockets, h, o)
          /\ pending' = [pending EXCEPT ![p] = GatherRemaining(@, h, o)]
    /\ UNCHANGED <<news_history, pc, conn, nin,
                   ppc, news_item, snapshot, response, accepted>>

\* gather has finished: broadcast_news returns and post_news builds its response.
Respond(p) ==
    /\ ppc[p] = "gather"
    /\ GatherDone(pending[p])
    /\ ppc' = [ppc EXCEPT ![p] = "done"]
    /\ response' = [response EXCEPT ![p] =
            IF \E h \in Sessions : GatherRaises(results[p][h])
            THEN ErrorResponse("500")
            ELSE SuccessResponse(news_item[p], websockets)]
    /\ UNCHANGED <<websockets, news_history, sessionVars, news_item, pending,
                   snapshot, results, attempts, accepted>>

Init ==
    /\ websockets = {}
    /\ news_history = <<>>
    /\ pc = [s \in Sessions |-> "idle"]
    /\ conn = [s \in Sessions |-> "open"]
    /\ outbox = [s \in Sessions |-> <<>>]
    /\ nin = [s \in Sessions |-> 0]
    /\ ppc = [p \in Producers |-> "idle"]
    /\ news_item = [p \in Producers |-> NoItem]
    /\ pending = [p \in Producers |-> {}]
    /\ snapshot = [p \in Producers |-> [open |-> {}, closed |-> {}]]
    /\ results = [p \in Producers |-> [s \in Sessions |-> "none"]]
    /\ attempts = [p \in Producers |-> [s \in Sessions |-> 0]]
    /\ response = [p \in Producers |-> NoResponse]
    /\ accepted = <<>>

\* POST /news requests with a valid body, bounded for each specification.
Submit(p, body) == Len(accepted) < MaxPosts /\ PostNews(p, body)
SubmitPastCapacity(p, body) == Len(accepted) < MaxHistoryPosts /\ PostNews(p, body)

\* No post_news handler is suspended in its broadcast: every earlier request has
\* been answered.
AllAnswered == \A q \in Producers : ppc[q] # "gather"

\* A producer that submits only after the response to the previous submission.
SubmitAfterResponse(p, body) == AllAnswered /\ Submit(p, body)
SubmitInSession(p, body) ==
    AllAnswered /\ Len(accepted) < MaxSessionPosts /\ PostNews(p, body)

\* Inbound text messages, bounded for each specification.
Receive(s, m) == nin[s] < MaxInbound /\ ReceiveText(s, m)
ReceiveInSession(s, m) == nin[s] < MaxSessionInbound /\ ReceiveText(s, m)

\* The steps of the subscriber connections, but for their inbound text messages.
SessionSteps ==
    \/ \E s \in Sessions : Connect(s)
    \/ \E s \in Sessions : SendConnected(s)
    \/ \E s \in Sessions : LoopEnds(s)
    \/ \E s \in Sessions : ErrorFrame(s)
    \/ \E s \in Sessions : Cancel(s)
    \/ \E s \in Sessions : \E how \in {"closed", "reset", "fault"} : ConnFail(s, how)

\* The steps of post_news after the body was read and accepted.
BroadcastSteps ==
    \/ \E p \in Producers : \E body \in Bodies : PostRejected(p, body)
    \/ \E p \in Producers : \E h \in Sessions : SendToClient(p, h)
    \/ \E p \in Producers : Respond(p)

\* Everything but the inbound text messages.
Lifecycle ==
    \/ SessionSteps
    \/ \E p \in Producers : \E body \in Bodies : Submit(p, body)
    \/ BroadcastSteps

Next ==
    \/ Lifecycle
    \/ \E s \in Sessions : \E m \in InboundTexts : Receive(s, m)

\* The whole server: sessions, their inbound messages, failures and producers.
Spec == Init /\ [][Next]_vars

\* Sessions that send no text messages: connections, failures, teardown and
\* broadcasts.
NextBroadcast == Lifecycle

SpecBroadcast == Init /\ [][NextBroadcast]_vars

\* Connections that stay healthy and silent, and producers that submit past the
\* capacity of the history.
NextHistory ==
    \/ \E s \in Sessions : Connect(s)
    \/ \E s \in Sessions : SendConnected(s)
    \/ \E p \in Producers : \E body \in Bodies : PostRejected(p, body)
    \/ \E p \in Producers : \E body \in Bodies : SubmitPastCapacity(p, body)
    \/ \E p \in Producers : \E h \in Sessions : SendToClient(p, h)
    \/ \E p \in Producers : Respond(p)

SpecHistory == Init /\ [][NextHistory]_vars

\* Connections that stay healthy, one of which sends text messages, and a
\* producer that submits one item after the other.
NextSession ==
    \/ \E s \in Sessions : Connect(s)
    \/ \E s \in Sessions : SendConnected(s)
    \/ \E s \in Sessions : \E m \in InboundTexts : ReceiveInSession(s, m)
    \/ \E p \in Producers : \E body \in Bodies : SubmitInSession(p, body)
    \/ \E p \in Producers : \E h \in Sessions : SendToClient(p, h)
    \/ \E p \in Producers : Respond(p)

SpecSession == Init /\ [][NextSession]_vars

\* SpecBroadcast with producers that wait for the response before they submit again.
NextSequential ==
    \/ SessionSteps
    \/ \E p \in Producers : \E body \in Bodies : SubmitAfterResponse(p, body)
    \/ BroadcastSteps

SpecSequential == Init /\ [][NextSequential]_vars

\* The handle's transport is gone: closed, or lost with ws.closed still False.
TransportClosed(c) == c \in {"closed", "reset"}

\* The handler task of a connection whose transport is gone is woken: its pending
\* receive ends the loop, or its pending handshake send raises.
HandlerNotices(s) ==
    /\ TransportClosed(conn[s])
    /\ (SendConnected(s) \/ LoopEnds(s))

\* The event loop runs every task that is ready.
Fairness == \A s \in Sessions : WF_vars(HandlerNotices(s))

SpecLive == Init /\ [][NextBroadcast]_vars /\ Fairness

\* ================================================================ claims

\* A message of the given type and data is in the outbox of h.
Received(h, m) == \E i \in 1..Len(outbox[h]) : outbox[h][i] = m

\* The news message of producer p's submission has been written to h.
Delivered(p, h) == Received(h, Msg("news", <<news_item[p]>>, ""))

\* broadcast_news of producer p's accepted submission has run all its sends.
BroadcastReturned(p) ==
    /\ news_item[p] # NoItem
    /\ ppc[p] \in {"gather", "done"}
    /\ pending[p] = {}

\* data is a run of consecutive entries of seq, in seq's order.
IsSegment(data, seq) ==
    \E i \in 0..Len(seq) : i + Len(data) <= Len(seq) /\ data = SubSeq(seq, i + 1, i + Len(data))

\* C1: the ids of successively accepted submissions are strictly increasing (so no
\* id is ever used twice), also once the history has started evicting.
C1_IdsStrictlyIncreasing ==
    \A i, j \in 1..Len(accepted) : i < j => accepted[i].id < accepted[j].id

\* C2: news_history never exceeds max_history and is exactly the last
\* min(N, max_history) of the N accepted items, unaltered and in acceptance order.
C2_HistoryIsLastAccepted ==
    LET n == Len(accepted)
        k == IF n < max_history THEN n ELSE max_history
    IN /\ Len(news_history) <= max_history
       /\ news_history = [i \in 1..k |-> accepted[n - k + i]]

\* C2 witness: two items have been evicted and the history is full.
C2_Witness ==
    /\ Len(accepted) >= max_history + 2
    /\ Len(news_history) = max_history

\* C3: the reply to get_history with an integer count k holds at most max(k, 0)
\* items, never more than are stored, and lists them in insertion order.
C3_HistoryReplyBounded ==
    [][\A s \in Sessions : \A m \in InboundTexts :
        (m.type = "get_history" /\ m.ctype = "int" /\ ReceiveText(s, m) /\ pc'[s] = "active")
        => LET reply == outbox'[s][Len(outbox'[s])]
           IN /\ reply.type = "history"
              /\ Len(reply.data) <= Max(m.count, 0)
              /\ Len(reply.data) <= Len(news_history)
              /\ IsSegment(reply.data, news_history)]_vars

\* C4: a session whose handler has returned (Closed) is not in the registry,
\* whichever way it left the receive loop or the handshake.
C4_ClosedSessionUnregistered ==
    \A s \in Sessions : pc[s] = "closed" => s \notin websockets

\* C4 witness: a session is Closed whose handle a broadcast had already pruned,
\* next to a session that is Closed without having been pruned.
C4_Witness ==
    \E s, x \in Sessions : \E p \in Producers :
        /\ s # x
        /\ pc[s] = "closed" /\ s \in snapshot[p].closed
        /\ pc[x] = "closed" /\ x \in snapshot[p].open

\* C5: handling an inbound text message on a healthy connection leaves the
\* session Active and registered, whatever the text is.
C5_TextNeverTerminates ==
    [][\A s \in Sessions : \A m \in InboundTexts :
        (ReceiveText(s, m) /\ conn[s] = "open")
        => (pc'[s] = "active" /\ s \in websockets')]_vars

\* C6 as stated: once the broadcast has run, no handle that was closed at the
\* iteration got a delivery attempt, each of them is out of the registry, and the
\* news message was delivered to every handle that was open at the iteration.
C6_DeliversToEveryOpenHandle ==
    \A p \in Producers : BroadcastReturned(p) =>
        /\ \A h \in snapshot[p].closed : attempts[p][h] = 0 /\ h \notin websockets
        /\ \A h \in snapshot[p].open : Delivered(p, h)

\* C6 amended: no attempt to, and removal of, every handle closed at the iteration;
\* one attempt to every handle open at the iteration, which delivers the news
\* message unless that send fails.
C6_DeliversUnlessSendFails ==
    \A p \in Producers : BroadcastReturned(p) =>
        /\ snapshot[p].open \cap snapshot[p].closed = {}
        /\ \A h \in snapshot[p].closed :
                attempts[p][h] = 0 /\ ~Delivered(p, h) /\ h \notin websockets
        /\ \A h \in snapshot[p].open :
                attempts[p][h] = 1 /\ (Delivered(p, h) <=> results[p][h] = "ok")

\* C6 witness: a broadcast over one closed and one open handle has returned, the
\* open one got the news message.
C6_Witness ==
    \E p \in Producers : \E h, x \in Sessions :
        /\ BroadcastReturned(p)
        /\ h \in snapshot[p].closed
        /\ x \in snapshot[p].open /\ Delivered(p, x)

\* C7: once broadcast_news has returned, no handle whose send failed (whatever
\* the exception) is in the registry.
C7_FailedHandleRemoved ==
    \A p \in Producers : BroadcastReturned(p) =>
        \A h \in Sessions : results[p][h] \in {"reset", "fault"} => h \notin websockets

\* C8: a valid submission ends with the success response carrying its news_id,
\* and its item is in the history (unless max_history later submissions have
\* evicted it), however many sends failed.
C8_FailuresNotRaisedToProducer ==
    \A p \in Producers : (ppc[p] = "done" /\ news_item[p] # NoItem) =>
        /\ response[p].status = "success"
        /\ response[p].news_id = news_item[p].id
        /\ \E i \in 1..Len(accepted) :
                /\ accepted[i] = news_item[p]
                /\ (i > Len(accepted) - max_history
                        => \E j \in 1..Len(news_history) : news_history[j] = news_item[p])

\* C8 witness: a submission has been answered although every one of its two sends
\* failed, one with ConnectionResetError and one with another exception.
C8_Witness ==
    \E p \in Producers : \E h, x \in Sessions :
        /\ ppc[p] = "done" /\ response[p].status = "success"
        /\ snapshot[p].open = {h, x}
        /\ results[p][h] = "reset" /\ results[p][x] = "fault"

\* C9: a broadcast makes at most one send per handle, and once it has returned
\* it has made exactly one to every handle that was registered and open at the
\* iteration, whether or not other sends failed.
C9_OneAttemptPerOpenHandle ==
    \A p \in Producers :
        /\ \A h \in Sessions : attempts[p][h] <= 1
        /\ BroadcastReturned(p) => \A h \in snapshot[p].open : attempts[p][h] = 1

\* C9 witness: a broadcast to two open handles has returned; one send failed and
\* the other handle got the news message.
C9_Witness ==
    \E p \in Producers : \E h, x \in Sessions :
        /\ BroadcastReturned(p)
        /\ snapshot[p].open = {h, x}
        /\ results[p][h] \in {"reset", "fault"}
        /\ results[p][x] = "ok" /\ Delivered(p, x)

\* C10: clients_notified in a success response is the number of sessions to which
\* that submission's news message was delivered.
C10_NotifiedEqualsDelivered ==
    \A p \in Producers : (ppc[p] = "done" /\ response[p].status = "success") =>
        response[p].clients_notified = Cardinality({h \in Sessions : Delivered(p, h)})

\* The last min(k, Len(seq)) entries of seq, in seq's order (the empty sequence
\* when k is not positive).
LastItems(seq, k) ==
    LET n == Len(seq)
        c == Max(Min(k, n), 0)
    IN [i \in 1..c |-> seq[n - c + i]]

\* The positions of the connected acknowledgment in the outbox of s.
ConnectedAt(s) == {i \in 1..Len(outbox[s]) : outbox[s][i].type = "connected"}

\* C11: a session's first message is the initial history (sent only when the
\* history is non-empty, holding its last min(10, stored) items in insertion order),
\* the connected acknowledgment follows it, and no inbound message of the session
\* is dispatched or replied to before both have been sent.
C11_HandshakeBeforeInbound ==
    /\ [][\A s \in Sessions : Connect(s) =>
            outbox'[s] =
                IF news_history = <<>>
                THEN <<Msg("connected", <<>>, "")>>
                ELSE <<Msg("history", LastItems(news_history, InitialHistoryCount), "")>>]_vars
    /\ [](\A s \in Sessions :
            /\ Cardinality(ConnectedAt(s)) <= 1
            /\ (nin[s] > 0 \/ pc[s] = "active") => ConnectedAt(s) # {}
            /\ \A i \in 1..Len(outbox[s]) :
                   \/ outbox[s][i].type = "news"
                   \/ outbox[s][i].type = "connected"
                   \/ outbox[s][i].type = "history" /\ i = 1
                   \/ \E j \in ConnectedAt(s) : j < i)

\* C11 witness: a session got an initial history that left out the oldest stored
\* item, then the acknowledgment, then the reply to its first inbound message.
C11_Witness ==
    \E s \in Sessions :
        /\ Len(outbox[s]) >= 3 /\ nin[s] = 1
        /\ outbox[s][1].type = "history"
        /\ Len(outbox[s][1].data) = InitialHistoryCount
        /\ outbox[s][1].data[1] # accepted[1]
        /\ outbox[s][2].type = "connected"
        /\ outbox[s][3].type = "pong"

\* C12: a registered handle whose transport has closed is eventually out of the
\* registry, whether or not another broadcast runs.
C12_ClosedEventuallyRemoved ==
    \A s \in Sessions :
        (TransportClosed(conn[s]) /\ s \in websockets) ~> (s \notin websockets)

\* C12 witness: with no submission ever made, one session has been torn down and
\* removed while another one, whose connection was lost, is still registered.
C12_Witness ==
    \E s, x \in Sessions :
        /\ accepted = <<>>
        /\ pc[s] = "closed" /\ s \notin websockets
        /\ conn[x] = "reset" /\ x \in websockets

\* A step of session x's own websocket_handler task.
OwnStep(x) ==
    \/ Connect(x)
    \/ SendConnected(x)
    \/ \E m \in InboundTexts : ReceiveText(x, m)
    \/ LoopEnds(x)
    \/ ErrorFrame(x)
    \/ Cancel(x)

\* C13: only a session's own handler changes its position, and the handle of a
\* session whose connection is intact leaves the registry only by that session's
\* own teardown: neither another session's error or teardown nor a producer's
\* rejected submission or failed deliveries touch it.
C13_ErrorsStayLocal ==
    [][\A x \in Sessions :
        /\ pc'[x] # pc[x] => OwnStep(x)
        /\ (x \in websockets /\ x \notin websockets' /\ conn[x] = "open") => OwnStep(x)
        /\ (conn'[x] # conn[x] /\ conn[x] = "open") =>
                (OwnStep(x) \/ \E how \in {"closed", "reset", "fault"} : ConnFail(x, how))]_vars

\* C13 witness: a broadcast's send to one session failed and that session has
\* terminated, while the other session is still Active, intact and registered.
C13_Witness ==
    \E s, x \in Sessions : \E p \in Producers :
        /\ s # x
        /\ BroadcastReturned(p) /\ results[p][s] = "reset"
        /\ pc[s] = "closed"
        /\ pc[x] = "active" /\ conn[x] = "open" /\ x \in websockets

\* The inbound texts and replies C14 is about.
NonJsonText == [kind |-> "nonjson", type |-> "none", ctype |-> "absent", count |-> 0]
PingText == [kind |-> "object", type |-> "ping", ctype |-> "absent", count |-> 0]
InvalidJsonError == Msg("error", <<>>, "Invalid JSON format")

\* C14: on an intact connection a text that is not JSON is answered with exactly
\* one 'Invalid JSON format' error and leaves the session Active and registered,
\* and a ping that the session sends afterwards is answered with a pong.
C14_InvalidJsonKeepsSession ==
    [][\A s \in Sessions :
        /\ (ReceiveText(s, NonJsonText) /\ conn[s] = "open") =>
                /\ outbox'[s] = Append(outbox[s], InvalidJsonError)
                /\ pc'[s] = "active" /\ s \in websockets'
        /\ (ReceiveText(s, PingText) /\ conn[s] = "open" /\ Received(s, InvalidJsonError)) =>
                /\ outbox'[s] = Append(outbox[s], Msg("pong", <<>>, ""))
                /\ pc'[s] = "active" /\ s \in websockets']_vars

\* C14 witness: the session's two inbound messages were answered with the error
\* and then the pong, and it is still Active and registered.
C14_Witness ==
    \E s \in Sessions :
        /\ nin[s] = 2 /\ pc[s] = "active" /\ s \in websockets
        /\ \E i, j \in 1..Len(outbox[s]) :
                /\ i < j
                /\ outbox[s][i] = InvalidJsonError
                /\ outbox[s][j] = Msg("pong", <<>>, "")

\* C15: a POST /news whose JSON body lacks a title or a content, or has an empty
\* one, is answered with the 400 error response and changes nothing: the history,
\* the next id, the registry and every outbox stay as they were, and no broadcast
\* is started.
C15_RejectedHasNoEffect ==
    [][\A p \in Producers : \A body \in Bodies :
        (/\ body.json /\ (Falsy(body.title) \/ Falsy(body.content))
         /\ (PostRejected(p, body) \/ PostNews(p, body)))
        => /\ response'[p] = ErrorResponse("400")
           /\ news_history' = news_history
           /\ NextId(news_history') = NextId(news_history)
           /\ accepted' = accepted
           /\ websockets' = websockets
           /\ outbox' = outbox
           /\ pending'[p] = {} /\ ppc'[p] = "done"]_vars

\* C15 witness: a submission was rejected while the history held an item, a
\* session was registered and another submission's broadcast was under way.
C15_Witness ==
    \E p, q \in Producers :
        /\ ppc[p] = "done" /\ response[p] = ErrorResponse("400")
        /\ ppc[q] = "gather" /\ pending[q] # {}
        /\ news_history # <<>> /\ websockets # {}

\* C16: on an intact connection get_history with a positive count k (the default
\* when count is omitted) is answered with one history message holding exactly the
\* last min(k, stored) items in insertion order, all of them when k exceeds what
\* is stored.
C16_HistoryReplyIsLastK ==
    [][\A s \in Sessions : \A m \in InboundTexts :
        (/\ m.type = "get_history"
         /\ (m.ctype = "absent" \/ (m.ctype = "int" /\ m.count > 0))
         /\ ReceiveText(s, m) /\ conn[s] = "open")
        => LET k == IF m.ctype = "absent" THEN DefaultCount ELSE m.count
           IN outbox'[s] = Append(outbox[s], Msg("history", LastItems(news_history, k), ""))]_vars

\* C16 witness: the last message of a session is a history reply that holds two
\* of the three stored items.
C16_Witness ==
    \E s \in Sessions :
        LET n == Len(outbox[s])
        IN /\ nin[s] >= 1 /\ n >= 2
           /\ outbox[s][n].type = "history"
           /\ Len(outbox[s][n].data) = 2
           /\ Len(news_history) = 3

\* The positions of the news message for item in the outbox of h.
NewsAt(h, item) ==
    {i \in 1..Len(outbox[h]) : outbox[h][i] = Msg("news", <<item>>, "")}

\* Session h registered before the a-th accepted item was appended: its handshake
\* began with the acknowledgment (nothing was stored) or with an initial history
\* whose newest item was accepted before the a-th.
RegisteredBefore(h, a) ==
    /\ outbox[h] # <<>>
    /\ \/ outbox[h][1].type = "connected"
       \/ /\ outbox[h][1].type = "history"
          /\ outbox[h][1].data[Len(outbox[h][1].data)].title < a

\* The submission of the given item has been answered.
Answered(item) == \E p \in Producers : ppc[p] = "done" /\ news_item[p] = item

\* C17: when each submission is made after the response to the previous one, a
\* session receives the news of an earlier submission before the news of a later
\* one, each at most once, and a session that registered before the earlier one
\* and is still intact and registered when the later one is answered has received
\* both.
C17_SequentialNewsInOrder ==
    \A h \in Sessions : \A a, b \in 1..Len(accepted) :
        a < b =>
            /\ Cardinality(NewsAt(h, accepted[a])) <= 1
            /\ Cardinality(NewsAt(h, accepted[b])) <= 1
            /\ \A i \in NewsAt(h, accepted[a]) : \A j \in NewsAt(h, accepted[b]) : i < j
            /\ (/\ Answered(accepted[b])
                /\ RegisteredBefore(h, a)
                /\ conn[h] = "open" /\ h \in websockets)
               => (NewsAt(h, accepted[a]) # {} /\ NewsAt(h, accepted[b]) # {})

\* C17 witness: the second submission has been answered and an intact session
\* that registered before the first one holds both news messages.
C17_Witness ==
    \E h \in Sessions :
        /\ Len(accepted) = 2 /\ Answered(accepted[2])
        /\ RegisteredBefore(h, 1) /\ conn[h] = "open" /\ h \in websockets
        /\ NewsAt(h, accepted[1]) # {} /\ NewsAt(h, accepted[2]) # {}

\* C18: while no more than max_history submissions have been accepted, the history
\* holds exactly the k accepted items, in acceptance order and with the ids 1..k,
\* every success response carries the id of its own item, and no two producers
\* were given the same id, however the post_news handlers interleave.
C18_NoLostHistoryUpdate ==
    Len(accepted) <= max_history =>
        /\ news_history = accepted
        /\ \A i \in 1..Len(news_history) : news_history[i].id = i
        /\ \A i, j \in 1..Len(news_history) : i # j => news_history[i] # news_history[j]
        /\ \A p \in Producers : news_item[p] # NoItem =>
                /\ news_item[p].id \in 1..Len(accepted)
                /\ accepted[news_item[p].id] = news_item[p]
                /\ response[p].status = "success" => response[p].news_id = news_item[p].id
        /\ \A p, q \in Producers :
                (p # q /\ news_item[p] # NoItem /\ news_item[q] # NoItem)
                    => news_item[p].id # news_item[q].id

\* C18 witness: a second submission was accepted and answered while the handler
\* of the first one was still suspended in its broadcast.
C18_Witness ==
    \E p, q \in Producers :
        /\ ppc[p] = "gather" /\ pending[p] # {} /\ news_item[p].id = 1
        /\ ppc[q] = "done" /\ response[q].status = "success" /\ response[q].news_id = 2
        /\ Len(news_history) = 2

\* The items of the initial history message of h (none when its handshake began
\* with the acknowledgment).
InitialItems(h) ==
    IF outbox[h] # <<>> /\ outbox[h][1].type = "history"
    THEN {outbox[h][1].data[k] : k \in 1..Len(outbox[h][1].data)}
    ELSE {}

\* C19: no item of a session's initial history message is also sent to that
\* session as a news message.
C19_NoItemTwice ==
    \A h \in Sessions : \A item \in InitialItems(h) : NewsAt(h, item) = {}

\* C19 witness: a session registered while the broadcast of an item was suspended
\* in its sends; the item is in the session's initial history and the broadcast
\* has since ended.
C19_Witness ==
    \E h, x \in Sessions : \E p \in Producers :
        /\ h # x
        /\ news_item[p] \in InitialItems(h)
        /\ snapshot[p].open = {x} /\ Delivered(p, x)
        /\ BroadcastReturned(p)
        /\ h \in websockets /\ conn[h] = "open"

\* C20 as stated: every news message in a session's outbox comes after the
\* session's connected acknowledgment.
C20_NoNewsBeforeConnected ==
    \A h \in Sessions : \A i \in 1..Len(outbox[h]) :
        outbox[h][i].type = "news" => \E j \in ConnectedAt(h) : j < i

\* C20 amended: a news message is never the first message of a session, and it
\* precedes the connected acknowledgment only in a session whose handshake began
\* with the initial history message.
C20_NoNewsBeforeFirstHandshakeSend ==
    \A h \in Sessions : \A i \in 1..Len(outbox[h]) :
        outbox[h][i].type = "news" =>
            \/ \E j \in ConnectedAt(h) : j < i
            \/ i > 1 /\ outbox[h][1].type = "history"

\* C20 witness: a session was sent its initial history, then a news message, then
\* the connected acknowledgment.
C20_Witness ==
    \E h \in Sessions :
        /\ Len(outbox[h]) >= 3
        /\ outbox[h][1].type = "history"
        /\ outbox[h][2].type = "news"
        /\ outbox[h][3].type = "connected"

====
